---- MODULE Spec2Model ----
(***************************************************************************)
(* A model of api/security_review_api.py: the two handlers of              *)
(* SecurityReviewAPI (do_get: verify a continuity issue, do_post: create a *)
(* launch issue), the datastore entities they read and write, and the      *)
(* origin-trials client they call.  Each handler slot runs one request at  *)
(* a time as a series of atomic steps; the slots share the datastore.      *)
(***************************************************************************)
EXTENDS Integers, Sequences, FiniteSets, TLC

(* ------------------------------ bounds -------------------------------- *)
NSlots == 2          \* request handlers that may be in flight together
MaxRequests == 2     \* requests received in one behaviour
MaxLen == 2          \* characters of a textual continuity_id

Slots == 1..NSlots

(* --------------------------- Python values ---------------------------- *)
\* A Python value: None, an int or a str (a sequence of characters).
NoneVal == [tag |-> "none", n |-> 0, s |-> <<>>]
IntVal(k) == [tag |-> "int", n |-> k, s |-> <<>>]
StrVal(cs) == [tag |-> "str", n |-> 0, s |-> cs]

\* Python's truth value: None, 0 and "" are false.
Truthy(v) ==
  CASE v.tag = "none" -> FALSE
    [] v.tag = "int" -> v.n # 0
    [] v.tag = "str" -> v.s # <<>>

\* isinstance(v, int)
IsInstanceInt(v) == v.tag = "int"

Digits == {"0", "7"}
Alphabet == {"0", "7", "-", "x"}

DigitValue(c) == IF c = "7" THEN 7 ELSE 0

RECURSIVE DigitsValue(_)
\* The value of a sequence of digits, most significant first.
DigitsValue(cs) ==
  IF cs = <<>> THEN 0
  ELSE 10 * DigitsValue(SubSeq(cs, 1, Len(cs) - 1)) + DigitValue(cs[Len(cs)])

AllDigits(cs) == cs # <<>> /\ \A k \in 1..Len(cs) : cs[k] \in Digits

\* int(v): an int is returned as it is; a str is parsed as an optional sign
\* followed by digits and raises ValueError otherwise.
PyInt(v) ==
  IF v.tag = "int" THEN [ok |-> TRUE, n |-> v.n]
  ELSE IF v.s # <<>> /\ v.s[1] = "-" /\ AllDigits(Tail(v.s))
    THEN [ok |-> TRUE, n |-> 0 - DigitsValue(Tail(v.s))]
  ELSE IF AllDigits(v.s) THEN [ok |-> TRUE, n |-> DigitsValue(v.s)]
  ELSE [ok |-> FALSE, n |-> 0]

RECURSIVE Texts(_)
\* The character sequences of length at most k.
Texts(k) ==
  IF k = 0 THEN {<<>>}
  ELSE Texts(k - 1) \cup {Append(t, c) : t \in Texts(k - 1), c \in Alphabet}

(* ------------------------------ inputs -------------------------------- *)
\* kwargs.get('continuity_id'): absent, a text, or an int (a typed route).
ContinuityArgs ==
  {NoneVal} \cup {StrVal(t) : t \in Texts(MaxLen)} \cup {IntVal(k) : k \in {-7, 0, 7}}

FeatureIds == {1, 2}           \* the FeatureEntry entities of the datastore
GateIds == {7}                 \* the Gate entities of the datastore
Users == {"alice", "bob"}
\* Who may edit which feature (the permission subsystem's answer).
Editors == [f \in FeatureIds |-> IF f = 1 THEN {"alice"} ELSE {"alice", "bob"}]

\* The fields of the JSON body, as CreateLaunchIssueRequest.from_dict yields them.
FeatureIdArgs == {NoneVal, StrVal(<<"x">>), IntVal(1), IntVal(2), IntVal(3)}
GateIdArgs == {NoneVal, StrVal(<<"x">>), IntVal(7), IntVal(8)}

\* What create_launch_issue returns: (issue_id, failed_reason).
IssueIdResults == {NoneVal, IntVal(555), IntVal(556)}
FailedReasons == {NoneVal, StrVal(<<>>), StrVal(<<"tracker quota exceeded">>)}
\* What verify_continuity_issue returns (the response dict, opaque here).
VerifyResults == {IntVal(1)}
\* How an external call ends.
ClientOutcomes == {"returns", "RequestException", "KeyError"}

NoRequest ==
  [kind |-> "none", continuity_id |-> NoneVal, feature_id |-> NoneVal,
   gate_id |-> NoneVal, user |-> "alice"]
NoFeature == [present |-> FALSE, continuity_id |-> NoneVal, launch_issue_id |-> NoneVal]
NoLocals ==
  [feature |-> NoFeature, continuity_id |-> 0, issue_id |-> NoneVal,
   failed_reason |-> NoneVal]
NoResponse == [status |-> 0, text |-> "", val |-> NoneVal]
NoHistory == [evaluated |-> {}, calls |-> <<>>, puts |-> <<>>]

(* ------------------------------- state -------------------------------- *)
VARIABLES
  features,   \* datastore: FeatureEntry by id
  gates,      \* datastore: the ids of the Gate entities
  pc,         \* where each handler slot stands
  req,        \* the request a slot is handling
  loc,        \* the handler's local variables
  resp,       \* the response of a finished request
  hist,       \* per request: checks evaluated, external calls made, puts done
  created,    \* per feature: external calls that returned an issue id
  overwritten,\* a put replaced a launch_issue_id that was not None
  started,    \* requests received so far
  prev        \* the request finished last, with what it did

vars == <<features, gates, pc, req, loc, resp, hist, created, overwritten, started, prev>>

Init ==
  /\ features \in
       {[f \in FeatureIds |->
           [continuity_id |-> IF f = 1 THEN IntVal(11) ELSE NoneVal,
            launch_issue_id |-> IF f = 2 THEN l ELSE NoneVal]] :
          l \in {NoneVal, IntVal(900)}}
  /\ gates = GateIds
  /\ pc = [i \in Slots |-> "idle"]
  /\ req = [i \in Slots |-> NoRequest]
  /\ loc = [i \in Slots |-> NoLocals]
  /\ resp = [i \in Slots |-> NoResponse]
  /\ hist = [i \in Slots |-> NoHistory]
  /\ created = [f \in FeatureIds |-> 0]
  /\ overwritten = FALSE
  /\ started = 0
  /\ prev = [req |-> NoRequest, status |-> 0, calls |-> 0, puts |-> 0]

(* ------------------------- shared plumbing ---------------------------- *)
\* self.abort(status, msg) and a returned response both end the request.
Respond(i, status, text, val) ==
  /\ resp' = [resp EXCEPT ![i] = [status |-> status, text |-> text, val |-> val]]
  /\ pc' = [pc EXCEPT ![i] = "done"]

\* Entity.get_by_id(id) on the datastore.
FeatureGetById(id) ==
  IF id \in DOMAIN features
    THEN [present |-> TRUE, continuity_id |-> features[id].continuity_id,
          launch_issue_id |-> features[id].launch_issue_id]
    ELSE NoFeature

GateGetById(id) == id \in gates

\* permissions.validate_feature_edit_permission: TRUE stands for a redirect
\* response (the caller may not edit), FALSE for None.
validate_feature_edit_permission(user, feature_id) ==
  ~(feature_id \in DOMAIN Editors /\ user \in Editors[feature_id])

(* ------------------------------ do_get -------------------------------- *)
\* Lines 30-36: the argument checks; status 0 means the checks passed.
GetValidate(arg) ==
  IF ~Truthy(arg)
    THEN [status |-> 400, text |-> "No continuity ID specified.", n |-> 0]
  ELSE IF ~PyInt(arg).ok
    THEN [status |-> 400, text |-> "Invalid continuity ID.", n |-> 0]
  ELSE [status |-> 0, text |-> "", n |-> PyInt(arg).n]

\* A GET request arrives and its argument is validated.
GetReceive(i, arg) ==
  /\ pc[i] = "idle"
  /\ started < MaxRequests
  /\ started' = started + 1
  /\ req' = [req EXCEPT ![i] = [NoRequest EXCEPT !.kind = "get", !.continuity_id = arg]]
  /\ LET v == GetValidate(arg) IN
       IF v.status # 0
         THEN /\ Respond(i, v.status, v.text, NoneVal)
              /\ loc' = loc
         ELSE /\ pc' = [pc EXCEPT ![i] = "g_call"]
              /\ loc' = [loc EXCEPT ![i].continuity_id = v.n]
              /\ resp' = resp
  /\ UNCHANGED <<features, gates, hist, created, overwritten, prev>>

\* How do_get answers each way the client call can end (lines 38-44).
GetAnswer(outcome, result) ==
  CASE outcome = "RequestException" ->
         [status |-> 500, text |-> "Error obtaining origin trial data from API",
          val |-> NoneVal]
    [] outcome = "KeyError" ->
         [status |-> 500, text |-> "Malformed response from origin trials API",
          val |-> NoneVal]
    [] outcome = "returns" ->
         [status |-> 200, text |-> "VerifyContinuityIssueResponse", val |-> result]

\* origin_trials_client.verify_continuity_issue(continuity_id) and the answer.
GetCall(i) ==
  /\ pc[i] = "g_call"
  /\ \E outcome \in ClientOutcomes, result \in VerifyResults :
       LET a == GetAnswer(outcome, result) IN
         /\ hist' = [hist EXCEPT ![i].calls =
                       Append(@, [fn |-> "verify_continuity_issue",
                                  args |-> <<IntVal(loc[i].continuity_id)>>,
                                  outcome |-> outcome])]
         /\ Respond(i, a.status, a.text, a.val)
  /\ UNCHANGED <<features, gates, req, loc, created, overwritten, started, prev>>

(* ------------------------------ do_post ------------------------------- *)
\* Checks 1-3 without check 4: a feature that has an issue gets through.
CheckFeature_NoIssueCheck(body) ==
  IF body.feature_id = NoneVal
    THEN [failed |-> 1, status |-> 400, text |-> "No feature specified."]
  ELSE IF ~IsInstanceInt(body.feature_id)
    THEN [failed |-> 2, status |-> 400, text |-> "Invalid feature ID."]
  ELSE IF ~FeatureGetById(body.feature_id.n).present
    THEN [failed |-> 3, status |-> 404, text |-> "Feature not found"]
  ELSE [failed |-> 0, status |-> 0, text |-> ""]

\* Lines 55-63: checks 1-4 in the order of the code; failed = 0 when all pass.
CheckFeature(body) ==
  IF body.feature_id = NoneVal
    THEN [failed |-> 1, status |-> 400, text |-> "No feature specified."]
  ELSE IF ~IsInstanceInt(body.feature_id)
    THEN [failed |-> 2, status |-> 400, text |-> "Invalid feature ID."]
  ELSE IF ~FeatureGetById(body.feature_id.n).present
    THEN [failed |-> 3, status |-> 404, text |-> "Feature not found"]
  ELSE IF FeatureGetById(body.feature_id.n).launch_issue_id # NoneVal
    THEN [failed |-> 4, status |-> 400,
          text |-> "Feature already has a security review issue."]
  ELSE [failed |-> 0, status |-> 0, text |-> ""]

\* Checks 6-8 with an unknown gate answered 400 instead of 404.
CheckGate_NotFoundIs400(body) ==
  IF body.gate_id = NoneVal
    THEN [failed |-> 6, status |-> 400, text |-> "No gate specified."]
  ELSE IF ~IsInstanceInt(body.gate_id)
    THEN [failed |-> 7, status |-> 400, text |-> "Invalid gate ID."]
  ELSE IF ~GateGetById(body.gate_id.n)
    THEN [failed |-> 8, status |-> 400, text |-> "Gate not found"]
  ELSE [failed |-> 0, status |-> 0, text |-> ""]

\* Lines 72-78: checks 6-8 in the order of the code.
CheckGate(body) ==
  IF body.gate_id = NoneVal
    THEN [failed |-> 6, status |-> 400, text |-> "No gate specified."]
  ELSE IF ~IsInstanceInt(body.gate_id)
    THEN [failed |-> 7, status |-> 400, text |-> "Invalid gate ID."]
  ELSE IF ~GateGetById(body.gate_id.n)
    THEN [failed |-> 8, status |-> 404, text |-> "Gate not found"]
  ELSE [failed |-> 0, status |-> 0, text |-> ""]

\* A POST request arrives; its body is parsed, the feature id is checked and
\* the feature is read (lines 52-63).
PostReceive(i, feature_id, gate_id, user) ==
  /\ pc[i] = "idle"
  /\ started < MaxRequests
  /\ started' = started + 1
  /\ LET body == [NoRequest EXCEPT !.kind = "post", !.feature_id = feature_id,
                                   !.gate_id = gate_id, !.user = user]
         c == CheckFeature(body)
     IN /\ req' = [req EXCEPT ![i] = body]
        /\ IF c.failed # 0
             THEN /\ Respond(i, c.status, c.text, feature_id)
                  /\ hist' = [hist EXCEPT ![i].evaluated = 1..c.failed]
                  /\ loc' = loc
             ELSE /\ pc' = [pc EXCEPT ![i] = "p_permission"]
                  /\ hist' = [hist EXCEPT ![i].evaluated = 1..4]
                  /\ loc' = [loc EXCEPT ![i].feature = FeatureGetById(feature_id.n)]
                  /\ resp' = resp
  /\ UNCHANGED <<features, gates, created, overwritten, prev>>

\* Lines 66-69: check 5.
PostPermission(i) ==
  /\ pc[i] = "p_permission"
  /\ hist' = [hist EXCEPT ![i].evaluated = @ \cup {5}]
  /\ IF validate_feature_edit_permission(req[i].user, req[i].feature_id.n)
       THEN Respond(i, 403, "User does not have permission to edit this feature.",
                    NoneVal)
       ELSE /\ pc' = [pc EXCEPT ![i] = "p_gate"]
            /\ resp' = resp
  /\ UNCHANGED <<features, gates, req, loc, created, overwritten, started, prev>>

\* Lines 72-78: the gate id is checked and the gate is read.
PostGate(i) ==
  /\ pc[i] = "p_gate"
  /\ LET c == CheckGate(req[i]) IN
       IF c.failed # 0
         THEN /\ Respond(i, c.status, c.text, req[i].gate_id)
              /\ hist' = [hist EXCEPT ![i].evaluated = @ \cup 6..c.failed]
         ELSE /\ pc' = [pc EXCEPT ![i] = "p_call"]
              /\ hist' = [hist EXCEPT ![i].evaluated = @ \cup 6..8]
              /\ resp' = resp
  /\ UNCHANGED <<features, gates, req, loc, created, overwritten, started, prev>>

\* The call made without the feature's continuity id.
CreateLaunchIssueArgs_NoContinuity(r, l) == <<r.feature_id, r.gate_id, NoneVal>>

\* The arguments of origin_trials_client.create_launch_issue (line 83).
CreateLaunchIssueArgs(r, l) == <<r.feature_id, r.gate_id, l.feature.continuity_id>>

\* A malformed response answered as a bad request.
PostRaised_KeyErrorIs400(outcome) ==
  IF outcome = "RequestException"
    THEN [status |-> 500, text |-> "Error obtaining origin trial data from API"]
    ELSE [status |-> 400, text |-> "Malformed response from origin trials API"]

\* How do_post answers a client call that raised (lines 84-87).
PostRaised(outcome) ==
  IF outcome = "RequestException"
    THEN [status |-> 500, text |-> "Error obtaining origin trial data from API"]
    ELSE [status |-> 500, text |-> "Malformed response from origin trials API"]

\* failed_reason looked at first: the issue id is never persisted.
AfterCall_SkipPut(issue_id) == "p_return"

\* Line 89: where the handler goes once the call has returned issue_id.
AfterCall(issue_id) == IF issue_id # NoneVal THEN "p_put" ELSE "p_return"

\* Lines 80-89: the external call.
PostCall(i) ==
  /\ pc[i] = "p_call"
  /\ \E outcome \in ClientOutcomes, issue_id \in IssueIdResults,
        failed_reason \in FailedReasons :
       /\ hist' = [hist EXCEPT ![i].calls =
                     Append(@, [fn |-> "create_launch_issue",
                                args |-> CreateLaunchIssueArgs(req[i], loc[i]),
                                outcome |-> outcome])]
       /\ IF outcome # "returns"
            THEN /\ issue_id = NoneVal /\ failed_reason = NoneVal
                 /\ Respond(i, PostRaised(outcome).status, PostRaised(outcome).text,
                            NoneVal)
                 /\ UNCHANGED <<loc, created>>
            ELSE /\ loc' = [loc EXCEPT ![i].issue_id = issue_id,
                                       ![i].failed_reason = failed_reason]
                 /\ created' =
                      IF issue_id # NoneVal
                        THEN [created EXCEPT ![req[i].feature_id.n] = @ + 1]
                        ELSE created
                 /\ pc' = [pc EXCEPT ![i] = AfterCall(issue_id)]
                 /\ resp' = resp
  /\ UNCHANGED <<features, gates, req, overwritten, started, prev>>

\* put() of an entity built anew from the issue id: the other field is lost.
PutEntity_DropsContinuity(l) ==
  [continuity_id |-> NoneVal, launch_issue_id |-> l.issue_id]

\* put() of the copy as it was read: the new issue id is not assigned.
PutEntity_StaleIssue(l) ==
  [continuity_id |-> l.feature.continuity_id,
   launch_issue_id |-> l.feature.launch_issue_id]

\* The entity feature.put() stores: the handler's copy with the new issue id.
PutEntity(l) ==
  [continuity_id |-> l.feature.continuity_id, launch_issue_id |-> l.issue_id]

\* Lines 90-91: feature.launch_issue_id = issue_id; feature.put().
PostPut(i) ==
  /\ pc[i] = "p_put"
  /\ LET f == req[i].feature_id.n IN
       /\ features' = [features EXCEPT ![f] = PutEntity(loc[i])]
       /\ overwritten' = (overwritten \/ features[f].launch_issue_id # NoneVal)
       /\ hist' = [hist EXCEPT ![i].puts =
                     Append(@, [feature_id |-> f, issue_id |-> loc[i].issue_id])]
  /\ loc' = [loc EXCEPT ![i].feature.launch_issue_id = loc[i].issue_id]
  /\ pc' = [pc EXCEPT ![i] = "p_return"]
  /\ UNCHANGED <<gates, req, resp, created, started, prev>>

\* Lines 92-94: what do_post answers once the call has returned.
PostAnswer(issue_id, failed_reason) ==
  IF Truthy(failed_reason)
    THEN [status |-> 500, text |-> "failed_reason", val |-> failed_reason]
    ELSE [status |-> 200, text |-> "Security review issue created", val |-> issue_id]

PostReturn(i) ==
  /\ pc[i] = "p_return"
  /\ LET a == PostAnswer(loc[i].issue_id, loc[i].failed_reason) IN
       Respond(i, a.status, a.text, a.val)
  /\ UNCHANGED <<features, gates, req, loc, hist, created, overwritten, started, prev>>

\* The response is sent and the handler is free for the next request.
Finish(i) ==
  /\ pc[i] = "done"
  /\ prev' = [req |-> req[i], status |-> resp[i].status,
              calls |-> Len(hist[i].calls), puts |-> Len(hist[i].puts)]
  /\ pc' = [pc EXCEPT ![i] = "idle"]
  /\ req' = [req EXCEPT ![i] = NoRequest]
  /\ loc' = [loc EXCEPT ![i] = NoLocals]
  /\ resp' = [resp EXCEPT ![i] = NoResponse]
  /\ hist' = [hist EXCEPT ![i] = NoHistory]
  /\ UNCHANGED <<features, gates, created, overwritten, started>>

(* --------------------------- specifications --------------------------- *)
Step(i) ==
  \/ \E arg \in ContinuityArgs : GetReceive(i, arg)
  \/ GetCall(i)
  \/ \E f \in FeatureIdArgs, g \in GateIdArgs, u \in Users : PostReceive(i, f, g, u)
  \/ PostPermission(i)
  \/ PostGate(i)
  \/ PostCall(i)
  \/ PostPut(i)
  \/ PostReturn(i)
  \/ Finish(i)

\* Requests are handled concurrently: any slot may take its next step.
Next == \E i \in Slots : Step(i)

Spec == Init /\ [][Next]_vars

\* Requests do not overlap: a request is received only while no other is in
\* flight, and then runs to its response.
NoneInFlight == \A j \in Slots : pc[j] = "idle"

SeqGetReceive(i, arg) == NoneInFlight /\ GetReceive(i, arg)

SeqPostReceive(i, feature_id, gate_id, user) ==
  NoneInFlight /\ PostReceive(i, feature_id, gate_id, user)

SeqNext ==
  \E i \in Slots :
    \/ \E arg \in ContinuityArgs : SeqGetReceive(i, arg)
    \/ GetCall(i)
    \/ \E f \in FeatureIdArgs, g \in GateIdArgs, u \in Users : SeqPostReceive(i, f, g, u)
    \/ PostPermission(i)
    \/ PostGate(i)
    \/ PostCall(i)
    \/ PostPut(i)
    \/ PostReturn(i)
    \/ Finish(i)

SeqSpec == Init /\ [][SeqNext]_vars

(* ----------------------- vocabulary of the claims --------------------- *)
AllChecks == 1..8

\* The number of the first check of do_post that request r fails in the
\* current datastore, in the documented order; 0 when r passes all eight.
FirstFailingCheck(r) ==
  CASE r.feature_id.tag = "none" -> 1
    [] r.feature_id.tag = "str" -> 2
    [] r.feature_id.tag = "int" ->
         IF r.feature_id.n \notin DOMAIN features THEN 3
         ELSE IF features[r.feature_id.n].launch_issue_id.tag # "none" THEN 4
         ELSE IF r.user \notin Editors[r.feature_id.n] THEN 5
         ELSE CASE r.gate_id.tag = "none" -> 6
                [] r.gate_id.tag = "str" -> 7
                [] r.gate_id.tag = "int" -> IF r.gate_id.n \in gates THEN 0 ELSE 8

\* The documented status of each check.
StatusOfCheck(k) ==
  CASE k \in {1, 2, 4, 6, 7} -> 400
    [] k \in {3, 8} -> 404
    [] k = 5 -> 403

IsPost(i) == req[i].kind = "post"
IsGet(i) == req[i].kind = "get"
\* The feature a POST request names (its feature_id is an int).
Target(i) == req[i].feature_id.n
\* The external call of request i returned (did not raise).
CallReturned(i) == hist[i].calls # <<>> /\ hist[i].calls[1].outcome = "returns"
CallRaised(i) == hist[i].calls # <<>> /\ hist[i].calls[1].outcome # "returns"

\* C1: in do_post the answer is the status of the first failing check in the
\* documented order (1-4, then permission, then 6-8), no later check is
\* evaluated, and a request reaches the external call only when none fails.
C1_FirstFailingCheckDecides ==
  \A i \in Slots : IsPost(i) =>
    LET k == FirstFailingCheck(req[i]) IN
      /\ pc[i] = "p_permission" => (k \notin 1..4 /\ hist[i].evaluated = 1..4)
      /\ pc[i] = "p_gate" => (k \notin 1..5 /\ hist[i].evaluated = 1..5)
      /\ pc[i] = "p_call" => (k = 0 /\ hist[i].evaluated = AllChecks)
      /\ (pc[i] = "done" /\ hist[i].calls = <<>>) =>
           /\ k # 0
           /\ resp[i].status = StatusOfCheck(k)
           /\ hist[i].evaluated = 1..k

\* A caller without edit permission is answered 403 although gate_id is missing.
C1_Witness ==
  \E i \in Slots :
    /\ IsPost(i) /\ pc[i] = "done" /\ resp[i].status = 403
    /\ req[i].gate_id = NoneVal
    /\ hist[i].evaluated = 1..5

\* C2: a POST whose feature exists and already has a launch_issue_id is
\* answered 400 whatever its gate_id and caller, without an external call and
\* without a write.
C2_ExistingIssueRejected ==
  [][\A i \in Slots :
       ( /\ pc[i] = "idle" /\ pc'[i] # "idle" /\ req'[i].kind = "post"
         /\ req'[i].feature_id.tag = "int"
         /\ req'[i].feature_id.n \in DOMAIN features
         /\ features[req'[i].feature_id.n].launch_issue_id # NoneVal )
       => ( /\ pc'[i] = "done"
            /\ resp'[i].status = 400
            /\ hist'[i].calls = <<>> /\ hist'[i].puts = <<>>
            /\ features' = features )]_vars

\* A caller who may not edit feature 1 asks again, with no gate_id, after the
\* feature got its issue: the answer is 400, from check 4.
C2_Witness ==
  \E i \in Slots :
    /\ IsPost(i) /\ pc[i] = "done" /\ resp[i].status = 400
    /\ req[i].feature_id = IntVal(1) /\ req[i].user = "bob"
    /\ req[i].gate_id = NoneVal
    /\ features[1].launch_issue_id # NoneVal
    /\ hist[i].evaluated = 1..4 /\ hist[i].calls = <<>>

\* C3: over every interleaving, at most one external call per feature returns
\* an issue id and no launch_issue_id that is set is overwritten.
C3_AtMostOneLaunchIssue ==
  /\ \A f \in FeatureIds : created[f] <= 1
  /\ ~overwritten

\* C4: when the call returns an issue id and no failed_reason, it was made with
\* (feature_id, gate_id, feature.continuity_id), the feature carries that issue
\* id and the answer is 200 with the issue id in the message.
C4_Success ==
  \A i \in Slots :
    ( /\ IsPost(i) /\ pc[i] = "done" /\ CallReturned(i)
      /\ loc[i].issue_id # NoneVal /\ ~Truthy(loc[i].failed_reason) )
    => ( /\ hist[i].evaluated = AllChecks
         /\ Len(hist[i].calls) = 1
         /\ hist[i].calls[1].fn = "create_launch_issue"
         /\ hist[i].calls[1].args =
              <<req[i].feature_id, req[i].gate_id, features[Target(i)].continuity_id>>
         /\ features[Target(i)].launch_issue_id = loc[i].issue_id
         /\ resp[i] = [status |-> 200, text |-> "Security review issue created",
                       val |-> loc[i].issue_id] )

\* The scenario of the specification: issue 555 for a feature with a continuity id.
C4_Witness ==
  \E i \in Slots :
    /\ IsPost(i) /\ pc[i] = "done" /\ resp[i].status = 200
    /\ resp[i].val = IntVal(555)
    /\ req[i].feature_id = IntVal(1)
    /\ loc[i].failed_reason = StrVal(<<>>)
    /\ features[1].launch_issue_id = IntVal(555)

\* C5: an issue id returned together with a failed_reason is persisted before
\* failed_reason is looked at, the answer is 500 with failed_reason as message,
\* and the write stands.
C5_PartialSuccess ==
  \A i \in Slots : IsPost(i) =>
    /\ (pc[i] = "p_return" /\ loc[i].issue_id # NoneVal) =>
         /\ hist[i].puts = <<[feature_id |-> Target(i), issue_id |-> loc[i].issue_id]>>
         /\ features[Target(i)].launch_issue_id = loc[i].issue_id
    /\ ( /\ pc[i] = "done" /\ CallReturned(i)
         /\ loc[i].issue_id # NoneVal /\ Truthy(loc[i].failed_reason) ) =>
         /\ resp[i].status = 500
         /\ resp[i].val = loc[i].failed_reason
         /\ features[Target(i)].launch_issue_id = loc[i].issue_id

C5_Witness ==
  \E i \in Slots :
    /\ IsPost(i) /\ pc[i] = "done" /\ resp[i].status = 500
    /\ resp[i].val = StrVal(<<"tracker quota exceeded">>)
    /\ loc[i].issue_id = IntVal(555)
    /\ features[Target(i)].launch_issue_id = IntVal(555)

\* An integer in text: an optional minus sign and one or more digits.
IsIntegerText(cs) ==
  \E d \in 1..Len(cs) :
    /\ \A k \in d..Len(cs) : cs[k] \in {"0", "7"}
    /\ d = 1 \/ (d = 2 /\ cs[1] = "-")

\* The integer a continuity_id argument stands for.
IsIntegerArg(a) == a.tag = "int" \/ (a.tag = "str" /\ IsIntegerText(a.s))

RECURSIVE Horner(_, _)
Horner(acc, cs) ==
  IF cs = <<>> THEN acc
  ELSE Horner(10 * acc + (IF Head(cs) = "7" THEN 7 ELSE 0), Tail(cs))

IntegerOfArg(a) ==
  IF a.tag = "int" THEN a.n
  ELSE IF Head(a.s) = "-" THEN 0 - Horner(0, Tail(a.s))
  ELSE Horner(0, a.s)

\* C6: do_get answers 400 without a call when continuity_id is absent, empty
\* or no integer, and makes exactly one call, with that integer, for every
\* integer continuity_id, zero and negative values included.
C6_VerifyCallsExactlyOnce ==
  \A i \in Slots : IsGet(i) =>
    /\ Len(hist[i].calls) <= 1
    /\ pc[i] = "done" =>
         IF IsIntegerArg(req[i].continuity_id)
           THEN /\ Len(hist[i].calls) = 1
                /\ hist[i].calls[1].fn = "verify_continuity_issue"
                /\ hist[i].calls[1].args = <<IntVal(IntegerOfArg(req[i].continuity_id))>>
           ELSE resp[i].status = 400 /\ hist[i].calls = <<>>

\* C7: an external call that raises a transport error or a KeyError (malformed
\* response) is answered 500 by both handlers, is made once only, and in
\* do_post leaves the feature without a launch issue.
C7_UpstreamFailureIs500 ==
  \A i \in Slots :
    /\ Len(hist[i].calls) <= 1
    /\ (pc[i] = "done" /\ CallRaised(i)) =>
         /\ resp[i].status = 500
         /\ resp[i].val = NoneVal
         /\ IsPost(i) => ( /\ hist[i].puts = <<>>
                           /\ features[Target(i)].launch_issue_id = NoneVal )

\* A GET answered 500 after a transport error, then a POST answered 500 after
\* a malformed response.
C7_Witness ==
  /\ prev.req.kind = "get" /\ prev.status = 500 /\ prev.calls = 1
  /\ \E i \in Slots :
       /\ IsPost(i) /\ pc[i] = "done" /\ resp[i].status = 500
       /\ hist[i].calls # <<>> /\ hist[i].calls[1].outcome = "KeyError"
       /\ features[Target(i)].launch_issue_id = NoneVal

\* Request i passed all eight checks of do_post.
PassedAllChecks(i) ==
  /\ hist[i].evaluated = AllChecks
  /\ req[i].feature_id.tag = "int" /\ Target(i) \in DOMAIN features
  /\ loc[i].feature.present
  /\ hist[i].puts = <<>> => features[Target(i)].launch_issue_id = NoneVal
  /\ req[i].user \in Editors[Target(i)]
  /\ req[i].gate_id.tag = "int" /\ req[i].gate_id.n \in gates

C8_CallsAndWritesAfterChecks ==
  \A i \in Slots :
    /\ (IsPost(i) /\ (hist[i].calls # <<>> \/ hist[i].puts # <<>>
                      \/ pc[i] \in {"p_put", "p_return"})) => PassedAllChecks(i)
    /\ (IsPost(i) /\ pc[i] = "done" /\ resp[i].status \in {400, 403, 404}) =>
         (hist[i].calls = <<>> /\ hist[i].puts = <<>>)
    /\ IsGet(i) => hist[i].puts = <<>>

C8_OnlyLaunchIssueIdWritten ==
  /\ gates' = gates
  /\ features' # features =>
       \E i \in Slots :
         /\ IsPost(i) /\ pc[i] = "p_put" /\ pc'[i] = "p_return"
         /\ PassedAllChecks(i)
         /\ \A f \in FeatureIds \ {Target(i)} : features'[f] = features[f]
         /\ features'[Target(i)].continuity_id = features[Target(i)].continuity_id

\* C8: do_post calls the client and writes only after all eight checks passed
\* in the same request; a request rejected by a check neither calls nor
\* writes; the only thing ever written is launch_issue_id of the feature named
\* by feature_id.
C8_Frame == []C8_CallsAndWritesAfterChecks /\ [][C8_OnlyLaunchIssueIdWritten]_vars

\* A request wrote feature 1, feature 2 is as it was; the request before it
\* was rejected by a check.
C8_Witness ==
  /\ prev.req.kind = "post" /\ prev.status \in {400, 403, 404} /\ prev.calls = 0
  /\ \E i \in Slots :
       /\ IsPost(i) /\ hist[i].puts # <<>> /\ Target(i) = 1
       /\ features[1].launch_issue_id = loc[i].issue_id
       /\ features[1].continuity_id = IntVal(11)
       /\ features[2].continuity_id = NoneVal

\* C9: a 200 of do_post means that the feature carries the issue id of the
\* message.
C9_OkMeansIssueRecorded ==
  \A i \in Slots :
    (IsPost(i) /\ pc[i] = "done" /\ resp[i].status = 200) =>
      /\ features[Target(i)].launch_issue_id # NoneVal
      /\ features[Target(i)].launch_issue_id = resp[i].val

\* The last finished request was a POST that failed upstream with nothing persisted.
PrevFailedUnpersisted ==
  prev.req.kind = "post" /\ prev.status = 500 /\ prev.calls = 1 /\ prev.puts = 0

\* C10: with requests that do not overlap, once an issue id was persisted for a
\* feature every later request for it is answered 400 without a call; after a
\* request that failed upstream with nothing persisted the feature still has
\* no launch issue and the same request, sent again, reaches the call.
C10_RejectAfterPersistRetryAfterFailure ==
  /\ \A f \in FeatureIds : created[f] <= 1
  /\ \A i \in Slots :
       (IsPost(i) /\ req[i].feature_id.tag = "int" /\ Target(i) \in FeatureIds
        /\ created[Target(i)] >= 1 /\ loc[i].issue_id = NoneVal)
       => ( /\ pc[i] = "done" /\ resp[i].status = 400
            /\ hist[i].calls = <<>> )
  /\ \A i \in Slots :
       (IsPost(i) /\ pc[i] = "done" /\ resp[i].status = 500
        /\ hist[i].calls # <<>> /\ hist[i].puts = <<>>)
       => ( /\ features[Target(i)].launch_issue_id = NoneVal
            /\ FirstFailingCheck(req[i]) = 0 )
  /\ \A i \in Slots :
       (PrevFailedUnpersisted /\ IsPost(i) /\ req[i] = prev.req /\ pc[i] = "done")
       => hist[i].calls # <<>>

\* The same request again after an upstream failure: it gets through, and the
\* issue it creates is persisted.
C10_Witness ==
  /\ PrevFailedUnpersisted
  /\ \E i \in Slots :
       /\ IsPost(i) /\ req[i] = prev.req /\ pc[i] = "done"
       /\ resp[i].status = 200
       /\ created[Target(i)] = 1
       /\ features[Target(i)].launch_issue_id = IntVal(556)

====
